---- MODULE Spec2Model ----
(***************************************************************************)
(* A model of neurotic/scripts.py: the command-line entry point of the     *)
(* neurotic application.  The module's functions (parse_args,              *)
(* launch_example_notebook, main, quick_launch) are called one after the   *)
(* other by a single Python thread; the state is the logging               *)
(* configuration the calls leave behind, the locals of the call in         *)
(* progress and the trace of the calls made to collaborators (Qt, the      *)
(* subprocess module, the logging module, load_dataset and the             *)
(* EphyviewerConfigurator).                                                *)
(***************************************************************************)
EXTENDS Integers, Sequences, FiniteSets, TLC

(* ------------------------------------------------------------------ *)
(* Bounds                                                              *)
(* ------------------------------------------------------------------ *)

\* the largest number of command-line tokens after the program name
MaxArgs == 3

(* ------------------------------------------------------------------ *)
(* The logging module                                                  *)
(* ------------------------------------------------------------------ *)

\* the names of the levels of Python's logging module
LevelNames == {"DEBUG", "INFO", "WARNING", "ERROR", "CRITICAL"}

\* logging.DEBUG .. logging.CRITICAL as numbers; a logger that was never
\* configured has the level NOTSET
levelno(name) ==
    CASE name = "NOTSET"   -> 0
      [] name = "DEBUG"    -> 10
      [] name = "INFO"     -> 20
      [] name = "WARNING"  -> 30
      [] name = "ERROR"    -> 40
      [] name = "CRITICAL" -> 50

\* Logger.getEffectiveLevel of `logger`: the module's logger has no level
\* of its own, so its parent's level applies, and under an unconfigured
\* parent the root logger's (WARNING)
getEffectiveLevel(parent) ==
    IF parent = "NOTSET" THEN "WARNING" ELSE parent

\* Logger.isEnabledFor: a record of level `name` passes the logger
isEnabledFor(name, parent) ==
    levelno(name) >= levelno(getEffectiveLevel(parent))

(* ------------------------------------------------------------------ *)
(* The command line                                                    *)
(* ------------------------------------------------------------------ *)

None == "None"

\* the program name, argv[0]
Prog == "neurotic"

\* words that do not start with a dash: file names, dataset names and the
\* values of --ui-scale and --theme
Words == {"small", "dark", "x"}

\* the choices of --ui-scale and --theme
available_ui_scales == {"small", "medium", "large"}
available_themes == {"light", "dark"}

\* a slip in the option table: --no-lazy declared with store_true
StoreFlags_slip ==
    [ o \in {"--debug", "--no-debug", "--lazy", "--no-lazy",
             "--thick-traces", "--no-thick-traces",
             "--show-datetime", "--no-show-datetime"} |->
        CASE o = "--debug"            -> <<"debug", TRUE>>
          [] o = "--no-debug"         -> <<"debug", FALSE>>
          [] o = "--lazy"             -> <<"lazy", TRUE>>
          [] o = "--no-lazy"          -> <<"lazy", TRUE>>
          [] o = "--thick-traces"     -> <<"thick_traces", TRUE>>
          [] o = "--no-thick-traces"  -> <<"thick_traces", FALSE>>
          [] o = "--show-datetime"    -> <<"show_datetime", TRUE>>
          [] o = "--no-show-datetime" -> <<"show_datetime", FALSE>> ]

\* the store_true / store_false options: option string -> <<dest, value>>
StoreFlags ==
    [ o \in {"--debug", "--no-debug", "--lazy", "--no-lazy",
             "--thick-traces", "--no-thick-traces",
             "--show-datetime", "--no-show-datetime"} |->
        CASE o = "--debug"            -> <<"debug", TRUE>>
          [] o = "--no-debug"         -> <<"debug", FALSE>>
          [] o = "--lazy"             -> <<"lazy", TRUE>>
          [] o = "--no-lazy"          -> <<"lazy", FALSE>>
          [] o = "--thick-traces"     -> <<"thick_traces", TRUE>>
          [] o = "--no-thick-traces"  -> <<"thick_traces", FALSE>>
          [] o = "--show-datetime"    -> <<"show_datetime", TRUE>>
          [] o = "--no-show-datetime" -> <<"show_datetime", FALSE>> ]

\* the options that take one value: option string -> <<dest, choices>>
ValueOptions ==
    [ o \in {"--ui-scale", "--theme"} |->
        IF o = "--ui-scale" THEN <<"ui_scale", available_ui_scales>>
                            ELSE <<"theme", available_themes>> ]

VersionOption == "-V"
NotebookOption == "--launch-example-notebook"

\* every token a command line of the model is made of
Tokens ==
    Words \cup DOMAIN StoreFlags \cup DOMAIN ValueOptions
          \cup {VersionOption, NotebookOption}

\* the command lines: at most MaxArgs tokens after the program name
TokenSeqs == UNION { [1..n -> Tokens] : n \in 0..MaxArgs }

\* the namespace before any argument is read
defaults ==
    [ file |-> None, dataset |-> None, debug |-> FALSE, lazy |-> TRUE,
      thick_traces |-> FALSE, show_datetime |-> FALSE,
      ui_scale |-> "medium", theme |-> "light",
      launch_example_notebook |-> FALSE ]

\* the outcomes of ArgumentParser.parse_args
Exit(code) == [kind |-> "exit", code |-> code, ns |-> defaults]
Parsed(ns) == [kind |-> "ok", code |-> 0, ns |-> ns]

\* the parser's bookkeeping while it walks the tokens
ParserStart ==
    [ ns |-> defaults, seen |-> {}, npos |-> 0, closed |-> FALSE,
      extras |-> FALSE ]

\* a positional string: the first is file, the second dataset, any further
\* one (or any one met after the positionals were closed) is unrecognized
take_positional(st, tok) ==
    IF st.closed \/ st.npos >= 2 THEN [st EXCEPT !.extras = TRUE]
    ELSE IF st.npos = 0 THEN [st EXCEPT !.ns.file = tok, !.npos = 1]
    ELSE [st EXCEPT !.ns.dataset = tok, !.npos = 2]

\* a store_true / store_false option of a mutually exclusive group
take_flag(st, tok) ==
    LET dest == StoreFlags[tok][1]
        val  == StoreFlags[tok][2]
    IN  [st EXCEPT !.ns = [@ EXCEPT ![dest] = val],
                   !.seen = @ \cup {<<dest, val>>}]

\* the other option of the group was already given
flag_conflict(st, tok) ==
    <<StoreFlags[tok][1], ~StoreFlags[tok][2]>> \in st.seen

\* ArgumentParser.parse_args on the tokens toks[i..], as configured by
\* parse_args.  greedy: the positionals file and dataset (nargs='?') are all
\* consumed by the first run of positional strings, as the argparse of
\* Python up to 3.12 does; otherwise they are filled in order wherever the
\* strings stand.
RECURSIVE parse_known(_, _, _, _)
parse_known(toks, i, st, greedy) ==
    IF i > Len(toks)
    THEN IF st.extras THEN Exit(2) ELSE Parsed(st.ns)
    ELSE LET tok == toks[i]
             opt == IF greedy /\ st.npos > 0 THEN [st EXCEPT !.closed = TRUE]
                    ELSE st
         IN  IF tok \in Words
               THEN parse_known(toks, i + 1, take_positional(st, tok), greedy)
             ELSE IF tok = VersionOption
               THEN Exit(0)
             ELSE IF tok \in DOMAIN StoreFlags
               THEN IF flag_conflict(opt, tok) THEN Exit(2)
                    ELSE parse_known(toks, i + 1, take_flag(opt, tok), greedy)
             ELSE IF tok \in DOMAIN ValueOptions
               THEN IF i + 1 > Len(toks) \/ toks[i + 1] \notin Words
                      THEN Exit(2)
                    ELSE IF toks[i + 1] \notin ValueOptions[tok][2]
                      THEN Exit(2)
                    ELSE parse_known(toks, i + 2,
                           [opt EXCEPT !.ns = [@ EXCEPT
                               ![ValueOptions[tok][1]] = toks[i + 1]]],
                           greedy)
             ELSE parse_known(toks, i + 1,
                    [opt EXCEPT !.ns.launch_example_notebook = TRUE], greedy)

\* parser.parse_args(argv[1:])
parser_parse_args(argv, greedy) == parse_known(Tail(argv), 1, ParserStart, greedy)


(* ------------------------------------------------------------------ *)
(* State                                                               *)
(* ------------------------------------------------------------------ *)

VARIABLES
    pc,                 \* the position of the Python thread
    caller,             \* who made the outermost call: the session, or main
    argv,               \* the argv of the parse_args call in progress
    args,               \* the namespace parse_args returned
    default_log_level,  \* neurotic.default_log_level
    parentLevel,        \* logger.parent.level
    libavLevel,         \* logging.getLogger('libav').level
    trace,              \* the collaborator calls of the call in progress
    prevDebug,          \* args.debug of the last parse_args that returned
    out,                \* launch_example_notebook's local `out`
    win,                \* the keyword arguments MainWindow was built with
    ql,                 \* quick_launch's arguments and locals (blk_arg keeps
                        \* the blk it was called with, which line 214 rebinds)
    exc                 \* the exception that ended the call, if any

vars == <<pc, caller, argv, args, default_log_level, parentLevel, libavLevel,
          trace, prevDebug, out, win, ql, exc>>

NoArgs == [defaults EXCEPT !.file = "<unset>"]
NoWin == [file |-> "<unset>", initial_selection |-> None, lazy |-> FALSE,
          theme |-> "", ui_scale |-> "",
          support_increased_line_width |-> FALSE, show_datetime |-> FALSE]
NoQl == [metadata |-> "", blk |-> None, lazy |-> FALSE,
         ephyviewer_config |-> <<>>, blk_arg |-> None]

\* the arguments quick_launch is called with, and the blocks load_dataset
\* may return
Metadatas == {"{}", "{'data_file': 'data.axgx'}"}
Blocks == {"blk1", "blk2"}

\* a call to a collaborator, and a call to a logger method; shown tells
\* whether the logger let the record through
Call(op, arg) == [op |-> op, arg |-> arg, shown |-> FALSE]
Log(level, msg, parent) ==
    [op |-> "logger", arg |-> msg, shown |-> isEnabledFor(level, parent)]

\* a call on the data-loading and configuration layer
QlCall(op, metadata, blk, lazy) ==
    [op |-> op, metadata |-> metadata, blk |-> blk, lazy |-> lazy]

Init ==
    /\ pc = "idle"
    /\ caller = "session"
    /\ argv = <<>>
    /\ args = NoArgs
    /\ default_log_level \in LevelNames
    /\ parentLevel = "NOTSET"
    /\ libavLevel = "NOTSET"
    /\ trace = <<>>
    /\ prevDebug = "none"
    /\ out = None
    /\ win = NoWin
    /\ ql = NoQl
    /\ exc = "none"

(* ------------------------------------------------------------------ *)
(* parse_args                                                          *)
(* ------------------------------------------------------------------ *)

\* a slip: the debug record is logged before the level is lowered
DebugBranch_early(ns, lg) ==
    LET logged == IF ~ns.launch_example_notebook
                  THEN [lg EXCEPT !.log = Append(@,
                           Log("DEBUG", "Debug messages enabled", lg.parent))]
                  ELSE lg
    IN  [logged EXCEPT !.parent = "DEBUG", !.libav = "WARNING"]

\* lines 110-131: the logging configuration and the records parse_args
\* leaves, from the parsed namespace and the configuration it finds
DebugBranch(ns, lg) ==
    LET set1 == [lg EXCEPT !.parent = "DEBUG"]
        set2 == [set1 EXCEPT !.libav = "WARNING"]
    IN  IF ~ns.launch_example_notebook
        THEN [set2 EXCEPT !.log = Append(@,
                 Log("DEBUG", "Debug messages enabled", set2.parent))]
        ELSE set2

\* a slip: no else branch, the levels of an earlier --debug call stay
NoDebugBranch_missing(ns, lg, dflt) == lg

NoDebugBranch(ns, lg, dflt) ==
    [lg EXCEPT !.parent = dflt, !.libav = "CRITICAL"]

parse_args_logging(ns, lg, dflt) ==
    IF ns.debug THEN DebugBranch(ns, lg) ELSE NoDebugBranch(ns, lg, dflt)

\* parse_args(av), called where the thread stands; a SystemExit of the
\* parser leaves the function before line 110
parse_args(av, greedy, returned, left) ==
    LET r  == parser_parse_args(av, greedy)
        lg == parse_args_logging(r.ns,
                [parent |-> parentLevel, libav |-> libavLevel, log |-> <<>>],
                default_log_level)
    IN  /\ argv' = av
        /\ IF r.kind = "ok"
           THEN /\ args' = r.ns
                /\ parentLevel' = lg.parent
                /\ libavLevel' = lg.libav
                /\ trace' = lg.log
                /\ pc' = returned
                /\ exc' = "none"
           ELSE /\ args' = NoArgs
                /\ UNCHANGED <<parentLevel, libavLevel>>
                /\ trace' = <<>>
                /\ pc' = left
                /\ exc' = IF r.code = 0 THEN "SystemExit(0)" ELSE "SystemExit(2)"

\* the session calls parse_args(argv)
call_parse_args ==
    /\ pc = "idle"
    /\ \E toks \in TokenSeqs, greedy \in BOOLEAN :
          parse_args(<<Prog>> \o toks, greedy, "parse_args:133", "raised")
    /\ UNCHANGED <<caller, default_log_level, prevDebug, out, win, ql>>


(* ------------------------------------------------------------------ *)
(* Calls to collaborators                                              *)
(* ------------------------------------------------------------------ *)

\* the call `op(arg)` is made and returns: the thread goes on at `next`
returns(op, arg, next) ==
    /\ trace' = Append(trace, Call(op, arg))
    /\ pc' = next
    /\ exc' = "none"

\* the call `op(arg)` is made and raises: the exception is not caught by
\* this module and unwinds every frame
raises(op, arg) ==
    /\ trace' = Append(trace, Call(op, arg))
    /\ pc' = "raised"
    /\ exc' = "Exception"

\* a logger method is called (it never raises)
logs(level, msg, next) ==
    /\ trace' = Append(trace, Log(level, msg, parentLevel))
    /\ pc' = next
    /\ exc' = "none"

(* ------------------------------------------------------------------ *)
(* launch_example_notebook                                             *)
(* ------------------------------------------------------------------ *)

path == "neurotic/example/example-notebook.ipynb"
CheckCommand == "jupyter notebook --version"
RunCommand == "jupyter notebook " \o path

\* the messages of the two except clauses
CheckErrorMessage ==
    "Unable to verify Jupyter is installed using \"jupyter notebook --version\". Is it installed?"
RunErrorMessage == "Unable to locate the example notebook at " \o path

\* what subprocess.Popen(...).communicate()[0] may do
PopenOutcomes == {"FileNotFoundError", "OtherError", "empty", "output"}

\* the session calls launch_example_notebook()
call_launch_example_notebook ==
    /\ pc = "idle"
    /\ pc' = "len:151"
    /\ caller' = "session"
    /\ trace' = <<>>
    /\ UNCHANGED <<argv, args, default_log_level, parentLevel, libavLevel,
                   prevDebug, out, win, ql, exc>>

\* lines 151-153: path = pkg_resources.resource_filename(...); out = None
len_resource_filename ==
    /\ pc = "len:151"
    /\ \/ returns("pkg_resources.resource_filename", path, "len:157") /\ out' = None
       \/ raises("pkg_resources.resource_filename", path) /\ out' = out
    /\ UNCHANGED <<caller, argv, args, default_log_level, parentLevel,
                   libavLevel, prevDebug, win, ql>>

\* lines 156-161: the check whether Jupyter is installed
len_check(outcome) ==
    /\ pc = "len:157"
    /\ CASE outcome = "FileNotFoundError" ->
              /\ trace' = Append(Append(trace, Call("subprocess.Popen", CheckCommand)),
                     Log("ERROR", CheckErrorMessage, parentLevel))
              /\ pc' = "len:163"
              /\ UNCHANGED <<out, exc>>
         [] outcome = "OtherError" ->
              /\ raises("subprocess.Popen", CheckCommand)
              /\ UNCHANGED out
         [] outcome = "empty" ->
              /\ returns("subprocess.Popen", CheckCommand, "len:163")
              /\ out' = ""
         [] outcome = "output" ->
              /\ returns("subprocess.Popen", CheckCommand, "len:163")
              /\ out' = "bytes"
    /\ UNCHANGED <<caller, argv, args, default_log_level, parentLevel,
                   libavLevel, prevDebug, win, ql>>

\* line 163: `if out:` (None and the empty output are false)
truthy(o) == o # None /\ o # ""

\* a slip: the notebook is run whatever the check printed
len_if_out_always ==
    /\ pc = "len:163"
    /\ pc' = "len:166"
    /\ UNCHANGED <<caller, argv, args, default_log_level, parentLevel,
                   libavLevel, trace, prevDebug, out, win, ql, exc>>

len_if_out ==
    /\ pc = "len:163"
    /\ pc' = IF truthy(out) THEN "len:166" ELSE "len:return"
    /\ UNCHANGED <<caller, argv, args, default_log_level, parentLevel,
                   libavLevel, trace, prevDebug, out, win, ql, exc>>

\* lines 165-169: run Jupyter on the example notebook
len_run(outcome) ==
    /\ pc = "len:166"
    /\ CASE outcome = "FileNotFoundError" ->
              /\ trace' = Append(Append(trace, Call("subprocess.Popen", RunCommand)),
                     Log("ERROR", RunErrorMessage, parentLevel))
              /\ pc' = "len:return"
              /\ UNCHANGED <<out, exc>>
         [] outcome = "OtherError" ->
              /\ raises("subprocess.Popen", RunCommand)
              /\ UNCHANGED out
         [] outcome = "empty" ->
              /\ returns("subprocess.Popen", RunCommand, "len:return")
              /\ out' = ""
         [] outcome = "output" ->
              /\ returns("subprocess.Popen", RunCommand, "len:return")
              /\ out' = "bytes"
    /\ UNCHANGED <<caller, argv, args, default_log_level, parentLevel,
                   libavLevel, prevDebug, win, ql>>

\* launch_example_notebook returns to main, which returns in its turn
len_return_to_main ==
    /\ pc = "len:return"
    /\ caller = "main"
    /\ pc' = "main:return"
    /\ UNCHANGED <<caller, argv, args, default_log_level, parentLevel,
                   libavLevel, trace, prevDebug, out, win, ql, exc>>

launch_example_notebook ==
    \/ len_resource_filename
    \/ \E o \in PopenOutcomes : len_check(o)
    \/ len_if_out
    \/ \E o \in PopenOutcomes : len_run(o)
    \/ len_return_to_main


(* ------------------------------------------------------------------ *)
(* main                                                                *)
(* ------------------------------------------------------------------ *)

\* win_from_args: the keyword arguments MainWindow is constructed with
win_from_args(a) ==
    [ file |-> a.file, initial_selection |-> a.dataset, lazy |-> a.lazy,
      theme |-> a.theme, ui_scale |-> a.ui_scale,
      support_increased_line_width |-> a.thick_traces,
      show_datetime |-> a.show_datetime ]

main_frame == <<caller, argv, args, default_log_level, parentLevel,
                libavLevel, prevDebug, out, ql>>

\* line 176: the session runs main(), which parses sys.argv
main_parse_args ==
    /\ pc = "idle"
    /\ \E toks \in TokenSeqs, greedy \in BOOLEAN :
          parse_args(<<Prog>> \o toks, greedy, "main:177", "raised")
    /\ caller' = "main"
    /\ UNCHANGED <<default_log_level, prevDebug, out, win, ql>>

\* a slip: the test of the mode is inverted
main_if_launch_example_notebook_inverted ==
    /\ pc = "main:177"
    /\ IF ~args.launch_example_notebook
       THEN /\ pc' = "len:151"
            /\ UNCHANGED <<trace, exc>>
       ELSE logs("INFO", "Loading user interface", "main:181")
    /\ UNCHANGED <<caller, argv, args, default_log_level, parentLevel,
                   libavLevel, prevDebug, out, win, ql>>

\* lines 177-180: the choice of the mode
main_if_launch_example_notebook ==
    /\ pc = "main:177"
    /\ IF args.launch_example_notebook
       THEN /\ pc' = "len:151"
            /\ UNCHANGED <<trace, exc>>
       ELSE logs("INFO", "Loading user interface", "main:181")
    /\ UNCHANGED <<caller, argv, args, default_log_level, parentLevel, libavLevel,
                   prevDebug, out, win, ql>>

\* line 181: app = mkQApp()
main_mkQApp ==
    /\ pc = "main:181"
    /\ \/ returns("mkQApp", "", "main:182")
       \/ raises("mkQApp", "")
    /\ UNCHANGED <<main_frame, win>>

\* line 182: the pixmap of the logo
main_QPixmap ==
    /\ pc = "main:182"
    /\ \/ returns("QT.QPixmap", ":/neurotic-logo-300.png", "main:182b")
       \/ raises("QT.QPixmap", ":/neurotic-logo-300.png")
    /\ UNCHANGED <<main_frame, win>>

\* line 182: splash = QT.QSplashScreen(pixmap)
main_QSplashScreen ==
    /\ pc = "main:182b"
    /\ \/ returns("QT.QSplashScreen", "pixmap", "main:183")
       \/ raises("QT.QSplashScreen", "pixmap")
    /\ UNCHANGED <<main_frame, win>>

\* line 183: splash.show()
main_splash_show ==
    /\ pc = "main:183"
    /\ \/ returns("splash.show", "", "main:184")
       \/ raises("splash.show", "")
    /\ UNCHANGED <<main_frame, win>>

\* line 184: win = win_from_args(args)
main_win_from_args ==
    /\ pc = "main:184"
    /\ \/ returns("MainWindow", "args", "main:185") /\ win' = win_from_args(args)
       \/ raises("MainWindow", "args") /\ win' = win
    /\ UNCHANGED main_frame

\* a slip: the window is never shown
main_win_show_skipped ==
    /\ pc = "main:185"
    /\ pc' = "main:186"
    /\ UNCHANGED <<main_frame, win, trace, exc>>

\* line 185: win.show()
main_win_show ==
    /\ pc = "main:185"
    /\ \/ returns("win.show", "", "main:186")
       \/ raises("win.show", "")
    /\ UNCHANGED <<main_frame, win>>

\* line 186: splash.finish(win)
main_splash_finish ==
    /\ pc = "main:186"
    /\ \/ returns("splash.finish", "win", "main:187")
       \/ raises("splash.finish", "win")
    /\ UNCHANGED <<main_frame, win>>

\* line 187: logger.info('Ready')
main_ready ==
    /\ pc = "main:187"
    /\ logs("INFO", "Ready", "main:188")
    /\ UNCHANGED <<main_frame, win>>

\* line 188: app.exec_(), which returns when the application quits
main_exec ==
    /\ pc = "main:188"
    /\ \/ returns("app.exec_", "", "main:return")
       \/ raises("app.exec_", "")
    /\ UNCHANGED <<main_frame, win>>

main ==
    \/ main_parse_args
    \/ main_if_launch_example_notebook
    \/ main_mkQApp
    \/ main_QPixmap
    \/ main_QSplashScreen
    \/ main_splash_show
    \/ main_win_from_args
    \/ main_win_show
    \/ main_splash_finish
    \/ main_ready
    \/ main_exec

(* ------------------------------------------------------------------ *)
(* quick_launch                                                        *)
(* ------------------------------------------------------------------ *)

ql_frame == <<caller, argv, args, default_log_level, parentLevel,
              libavLevel, prevDebug, out, win>>

ql_returns(op, m, b, l, next) ==
    /\ trace' = Append(trace, QlCall(op, m, b, l))
    /\ pc' = next
    /\ exc' = "none"

ql_raises(op, m, b, l) ==
    /\ trace' = Append(trace, QlCall(op, m, b, l))
    /\ pc' = "raised"
    /\ exc' = "Exception"

\* the session calls quick_launch(metadata, blk, lazy)
call_quick_launch ==
    /\ pc = "idle"
    /\ \E m \in Metadatas, b \in Blocks \cup {None}, l \in BOOLEAN :
          ql' = [metadata |-> m, blk |-> b, lazy |-> l,
                 ephyviewer_config |-> <<>>, blk_arg |-> b]
    /\ pc' = "ql:214"
    /\ trace' = <<>>
    /\ UNCHANGED <<ql_frame, exc>>

\* line 214: blk = load_dataset(metadata, blk, lazy=lazy)
ql_load_dataset ==
    /\ pc = "ql:214"
    /\ \/ \E loaded \in Blocks :
             /\ ql_returns("load_dataset", ql.metadata, ql.blk, ql.lazy, "ql:215")
             /\ ql' = [ql EXCEPT !.blk = loaded]
       \/ /\ ql_raises("load_dataset", ql.metadata, ql.blk, ql.lazy)
          /\ UNCHANGED ql
    /\ UNCHANGED ql_frame

\* a slip: the configurator gets the blk argument, not the loaded block
ql_EphyviewerConfigurator_stale ==
    /\ pc = "ql:215"
    /\ \/ /\ ql_returns("EphyviewerConfigurator", ql.metadata, ql.blk_arg, ql.lazy, "ql:216")
          /\ ql' = [ql EXCEPT !.ephyviewer_config = <<ql.metadata, ql.blk_arg, ql.lazy>>]
       \/ /\ ql_raises("EphyviewerConfigurator", ql.metadata, ql.blk_arg, ql.lazy)
          /\ UNCHANGED ql
    /\ UNCHANGED ql_frame

\* line 215: ephyviewer_config = EphyviewerConfigurator(metadata, blk, lazy=lazy)
ql_EphyviewerConfigurator ==
    /\ pc = "ql:215"
    /\ \/ /\ ql_returns("EphyviewerConfigurator", ql.metadata, ql.blk, ql.lazy, "ql:216")
          /\ ql' = [ql EXCEPT !.ephyviewer_config = <<ql.metadata, ql.blk, ql.lazy>>]
       \/ /\ ql_raises("EphyviewerConfigurator", ql.metadata, ql.blk, ql.lazy)
          /\ UNCHANGED ql
    /\ UNCHANGED ql_frame

\* a method called on the configurator: the record names the configurator
\* by the arguments it was constructed with
on_config(op, next) ==
    LET c == ql.ephyviewer_config
    IN  \/ ql_returns(op, c[1], c[2], c[3], next)
        \/ ql_raises(op, c[1], c[2], c[3])

\* line 216: ephyviewer_config.show_all()
ql_show_all ==
    /\ pc = "ql:216"
    /\ on_config("show_all", "ql:217")
    /\ UNCHANGED <<ql_frame, ql>>

\* line 217: ephyviewer_config.launch_ephyviewer()
ql_launch_ephyviewer ==
    /\ pc = "ql:217"
    /\ on_config("launch_ephyviewer", "ql:return")
    /\ UNCHANGED <<ql_frame, ql>>

quick_launch ==
    \/ call_quick_launch
    \/ ql_load_dataset
    \/ ql_EphyviewerConfigurator
    \/ ql_show_all
    \/ ql_launch_ephyviewer

(* ------------------------------------------------------------------ *)
(* The session                                                         *)
(* ------------------------------------------------------------------ *)

Finished == {"parse_args:133", "len:return", "ql:return", "raised"}

\* a call the session made is over (it returned, or the session caught what
\* it raised): its locals are gone, the logging configuration stays.  main
\* is the entry point of the process: nothing runs after it.
session_continues ==
    /\ pc \in Finished
    /\ caller = "session"
    /\ pc' = "idle"
    /\ caller' = "session"
    /\ argv' = <<>>
    /\ args' = NoArgs
    /\ trace' = <<>>
    /\ prevDebug' = IF args # NoArgs
                    THEN (IF args.debug THEN "debug" ELSE "no-debug")
                    ELSE prevDebug
    /\ out' = None
    /\ win' = NoWin
    /\ ql' = NoQl
    /\ exc' = "none"
    /\ UNCHANGED <<default_log_level, parentLevel, libavLevel>>

\* a process that runs main, or a session that calls the two convenience
\* functions
Next ==
    \/ main
    \/ call_launch_example_notebook
    \/ launch_example_notebook
    \/ quick_launch
    \/ session_continues

Spec == Init /\ [][Next]_vars

\* a session that calls parse_args again and again (as the unit tests do)
NextParse ==
    \/ call_parse_args
    \/ session_continues

SpecParse == Init /\ [][NextParse]_vars


(* ------------------------------------------------------------------ *)
(* Properties                                                          *)
(* ------------------------------------------------------------------ *)

IsPrefix(p, q) == Len(p) <= Len(q) /\ p = SubSeq(q, 1, Len(p))

\* the names of the collaborator calls of the trace, logger records left out
Ops(t) ==
    LET NotLog(e) == e.op # "logger"
        kept == SelectSeq(t, NotLog)
    IN  [i \in 1..Len(kept) |-> kept[i].op]

\* the messages handed to the logger, in order
Messages(t) ==
    LET IsLog(e) == e.op = "logger"
        kept == SelectSeq(t, IsLog)
    IN  [i \in 1..Len(kept) |-> kept[i].arg]

Has(seq, x) == \E i \in 1..Len(seq) : seq[i] = x
Count(seq, x) == Cardinality({i \in 1..Len(seq) : seq[i] = x})

InQuickLaunch == ql # NoQl
InMain == caller = "main" /\ args # NoArgs
InNotebook == Len(trace) > 0 /\ trace[1].op = "pkg_resources.resource_filename"

\* C1: quick_launch(metadata, blk, lazy) calls load_dataset(metadata, blk,
\* lazy), then EphyviewerConfigurator(metadata, <the block load_dataset
\* returned>, lazy), then show_all() and launch_ephyviewer() on that
\* configurator: each once, in this order, nothing else, and nothing after a
\* call that raised.
C1_QuickLaunchSequence ==
    InQuickLaunch =>
        LET expected ==
              << QlCall("load_dataset", ql.metadata, ql.blk_arg, ql.lazy),
                 QlCall("EphyviewerConfigurator", ql.metadata, ql.blk, ql.lazy),
                 QlCall("show_all", ql.metadata, ql.blk, ql.lazy),
                 QlCall("launch_ephyviewer", ql.metadata, ql.blk, ql.lazy) >>
        IN  /\ IsPrefix(trace, expected)
            /\ pc = "ql:214" => Len(trace) = 0
            /\ pc = "ql:215" => Len(trace) = 1
            /\ pc = "ql:216" => Len(trace) = 2
            /\ pc = "ql:217" => Len(trace) = 3
            /\ pc = "ql:return" => Len(trace) = 4
            /\ pc = "raised" => Len(trace) >= 1
            /\ pc \in {"ql:214", "ql:215", "ql:216", "ql:217", "ql:return", "raised"}

\* quick_launch ran to its end with a loaded block that is not the argument
C1_Witness ==
    /\ pc = "ql:return"
    /\ ql.blk_arg \in Blocks
    /\ ql.blk # ql.blk_arg
    /\ Len(trace) = 4


\* the calls of the two modes of main
NotebookOps == {"pkg_resources.resource_filename", "subprocess.Popen"}
StandaloneOps == <<"mkQApp", "QT.QPixmap", "QT.QSplashScreen", "splash.show",
                   "MainWindow", "win.show", "splash.finish", "app.exec_">>
NoNotebookCall == \A i \in 1..Len(trace) : trace[i].op \notin NotebookOps
NoStandaloneCall ==
    \A i \in 1..Len(trace) : ~Has(StandaloneOps, trace[i].op)
MainOver == pc \in {"main:return", "raised"}

\* what main leaves when it is run with --launch-example-notebook alone
AloneArgs == parser_parse_args(<<Prog, NotebookOption>>, TRUE).ns
AloneLogging ==
    parse_args_logging(AloneArgs,
        [parent |-> "NOTSET", libav |-> "NOTSET", log |-> <<>>],
        default_log_level)

\* C2: with --launch-example-notebook, whatever other options and
\* positionals are given, main has the effects it has with
\* --launch-example-notebook alone: the same levels on the parent logger and
\* on 'libav', the same records logged by parse_args, and calls to the
\* notebook's collaborators only.
C2_OtherArgsIgnored ==
    (InMain /\ args.launch_example_notebook) =>
        /\ parentLevel = AloneLogging.parent
        /\ libavLevel = AloneLogging.libav
        /\ pc = "main:177" => trace = AloneLogging.log
        /\ NoStandaloneCall

\* C3 as stated: once main is over after parse_args returned, exactly one of
\* (a) launch_example_notebook was called and nothing of Qt was, which is
\* the case exactly when args.launch_example_notebook; (b) the Qt
\* application, the splash screen and the main window were created, the
\* event loop was run and no jupyter subprocess was started.
C3_ExactlyOneMode ==
    (InMain /\ MainOver) =>
        LET a == InNotebook /\ NoStandaloneCall
            b == /\ \A k \in {1, 3, 5, 8} : Has(Ops(trace), StandaloneOps[k])
                 /\ NoNotebookCall
        IN  /\ a <=> args.launch_example_notebook
            /\ a \/ b
            /\ ~(a /\ b)

\* C3 as amended: main is in exactly one mode.  With
\* args.launch_example_notebook, launch_example_notebook is called and
\* nothing of Qt ever is; without it no notebook collaborator is ever called
\* (no jupyter subprocess), the standalone sequence is started, and the Qt
\* application, splash screen and main window are created and the event loop
\* run whenever main returns, that is unless one of these calls raises.
C3_ModesExclusive ==
    InMain =>
        IF args.launch_example_notebook
        THEN /\ NoStandaloneCall
             /\ MainOver => InNotebook
        ELSE /\ NoNotebookCall
             /\ MainOver => Has(Ops(trace), "mkQApp")
             /\ pc = "main:return" => Ops(trace) = StandaloneOps

\* main returned from the notebook mode
C3_Witness ==
    /\ InMain
    /\ pc = "main:return"
    /\ args.launch_example_notebook
    /\ Has(Ops(trace), "subprocess.Popen")

\* the tokens of the argv of the call, and what the command line gives
Toks == Tail(argv)
Given(o) == Has(Toks, o)
IsValue(i) == i > 1 /\ Toks[i - 1] \in {"--ui-scale", "--theme"}
Positionals ==
    LET IsPos(i) == Toks[i] \in Words /\ ~IsValue(i)
        idx == {i \in 1..Len(Toks) : IsPos(i)}
        RECURSIVE InOrder(_)
        InOrder(rest) ==
            IF rest = {} THEN <<>>
            ELSE LET m == CHOOSE i \in rest : \A j \in rest : i <= j
                 IN  <<Toks[m]>> \o InOrder(rest \ {m})
    IN  InOrder(idx)
LastValue(o, dflt) ==
    IF ~Given(o) THEN dflt
    ELSE LET last == CHOOSE i \in 1..Len(Toks) :
                        /\ Toks[i] = o
                        /\ \A j \in 1..Len(Toks) : Toks[j] = o => j <= i
         IN  Toks[last + 1]
Flag(yes, no, dflt) ==
    IF Given(yes) THEN TRUE ELSE IF Given(no) THEN FALSE ELSE dflt

\* C4: when parse_args returns, an argv with no argument gives file = None,
\* dataset = None, debug = False, lazy = True, thick_traces = False,
\* show_datetime = False, ui_scale = 'medium', theme = 'light',
\* launch_example_notebook = False; for any argv an option that is not given
\* keeps that default and a given one has the value given: --X is True,
\* --no-X is False, the first positional is file, the second dataset.
C4_DefaultsAndGiven ==
    pc = "parse_args:133" =>
        /\ args.file = IF Len(Positionals) >= 1 THEN Positionals[1] ELSE None
        /\ args.dataset = IF Len(Positionals) >= 2 THEN Positionals[2] ELSE None
        /\ args.debug = Flag("--debug", "--no-debug", FALSE)
        /\ args.lazy = Flag("--lazy", "--no-lazy", TRUE)
        /\ args.thick_traces = Flag("--thick-traces", "--no-thick-traces", FALSE)
        /\ args.show_datetime = Flag("--show-datetime", "--no-show-datetime", FALSE)
        /\ args.ui_scale = LastValue("--ui-scale", "medium")
        /\ args.theme = LastValue("--theme", "light")
        /\ args.launch_example_notebook = Given("--launch-example-notebook")
        /\ Len(Positionals) <= 2
        /\ \A x \in {"debug", "lazy", "thick-traces", "show-datetime"} :
              ~(Given("--" \o x) /\ Given("--no-" \o x))

\* parse_args returned for a command line with --no-lazy and a file
C4_Witness ==
    /\ pc = "parse_args:133"
    /\ Given("--no-lazy")
    /\ args.file # None
    /\ Len(Toks) = 3

\* args.debug of the most recent parse_args call that returned
LastDebug ==
    IF args # NoArgs THEN (IF args.debug THEN "debug" ELSE "no-debug")
    ELSE prevDebug

\* C5: after any sequence of parse_args calls, the levels depend on the
\* debug value of the most recent call that returned only: DEBUG on the
\* parent logger and WARNING on 'libav' if it was True, default_log_level
\* and CRITICAL otherwise.
C5_LevelsFollowLastDebug ==
    /\ LastDebug = "debug" =>
          parentLevel = "DEBUG" /\ libavLevel = "WARNING"
    /\ LastDebug = "no-debug" =>
          parentLevel = default_log_level /\ libavLevel = "CRITICAL"

\* a call without --debug returned after a call with --debug, and the
\* default level is back
C5_Witness ==
    /\ pc = "parse_args:133"
    /\ ~args.debug
    /\ prevDebug = "debug"
    /\ default_log_level = "WARNING"
    /\ parentLevel = "WARNING"

\* C7: parse_args hands 'Debug messages enabled' to the logger if and only
\* if debug is True and launch_example_notebook is False, and then the
\* parent logger is already at DEBUG, so that the record passes.
C7_DebugMessage ==
    pc = "parse_args:133" =>
        IF args.debug /\ ~args.launch_example_notebook
        THEN trace = << [op |-> "logger", arg |-> "Debug messages enabled",
                         shown |-> TRUE] >>
        ELSE trace = <<>>

\* --debug after a call that had left the parent logger at WARNING
C7_Witness ==
    /\ pc = "parse_args:133"
    /\ args.debug
    /\ ~args.launch_example_notebook
    /\ prevDebug = "no-debug"
    /\ default_log_level = "WARNING"
    /\ Len(trace) = 1


\* the calls and records of launch_example_notebook, whatever the logger
\* does with the records
Plain(t) == [i \in 1..Len(t) |-> <<t[i].op, t[i].arg>>]
ResourceCall == <<"pkg_resources.resource_filename", path>>
CheckCall == <<"subprocess.Popen", CheckCommand>>
RunCall == <<"subprocess.Popen", RunCommand>>
CheckError == <<"logger", CheckErrorMessage>>
RunError == <<"logger", RunErrorMessage>>

\* C6: launch_example_notebook runs 'jupyter notebook --version' first and
\* 'jupyter notebook <path>' only after it and only if the check printed
\* something; a FileNotFoundError of either call is caught and reported by
\* exactly one error record, the function then returns normally, and it
\* starts at most two subprocesses.
C6_NotebookLaunch ==
    /\ pc = "len:166" => out = "bytes" /\ Plain(trace) = <<ResourceCall, CheckCall>>
    /\ InNotebook =>
        LET t == Plain(trace)
        IN  /\ IsPrefix(t, <<ResourceCall, CheckCall, CheckError>>)
               \/ IsPrefix(t, <<ResourceCall, CheckCall, RunCall, RunError>>)
            /\ Count(t, CheckCall) + Count(t, RunCall) <= 2
            /\ (Has(t, CheckError) \/ Has(t, RunError)) =>
                  /\ exc = "none"
                  /\ pc \in {"len:163", "len:return", "main:return"}
                  /\ Count(t, CheckError) + Count(t, RunError) = 1
            /\ Has(t, CheckError) => out = None
            /\ (pc \in {"len:return", "main:return"} /\ ~Has(t, RunCall)) =>
                  ~truthy(out)

\* the executable is missing: the check was caught and the session has its
\* call back
C6_Witness ==
    /\ pc = "len:return"
    /\ caller = "session"
    /\ Plain(trace) = <<ResourceCall, CheckCall, CheckError>>
    /\ exc = "none"

\* C8: without --launch-example-notebook main calls, each once and in this
\* order, mkQApp, the splash screen's constructor and show, MainWindow with
\* the values of args, win.show, splash.finish(win) and app.exec_; a call
\* that raises ends the sequence, so the splash is never finished and the
\* loop never entered before the window is shown, nor after MainWindow
\* raised.
C8_StandaloneOrder ==
    (InMain /\ ~args.launch_example_notebook) =>
        /\ IsPrefix(Ops(trace), StandaloneOps)
        /\ pc = "main:return" => Ops(trace) = StandaloneOps
        /\ pc = "main:188" => Len(Ops(trace)) = 7
        /\ Has(Ops(trace), "app.exec_") =>
              Messages(trace)[Len(Messages(trace))] = "Ready"
        /\ IF Has(Ops(trace), "win.show") \/ pc = "main:185"
           THEN win = [ file |-> args.file, initial_selection |-> args.dataset,
                        lazy |-> args.lazy, theme |-> args.theme,
                        ui_scale |-> args.ui_scale,
                        support_increased_line_width |-> args.thick_traces,
                        show_datetime |-> args.show_datetime ]
           ELSE win = NoWin

\* the event loop returned for a command line with a file, a dataset and
\* --thick-traces
C8_Witness ==
    /\ InMain
    /\ pc = "main:return"
    /\ ~args.launch_example_notebook
    /\ args.thick_traces
    /\ args.dataset # None
    /\ win.initial_selection = args.dataset

====
